---------------------------- MODULE Spec2Model ----------------------------
(***************************************************************************)
(* Model of libguard/devtree/phal_devtree.cpp: the resolution of a         *)
(* physical path string into an EntityPath through the device tree.        *)
(*                                                                         *)
(* A string (std::string) is a sequence of one-character strings; a C      *)
(* buffer is a function on 0 .. size-1, indexed as in the source.  The     *)
(* two file-scope buffers g_physStringPath and g_physBinaryPath are shared *)
(* by every call; everything else is local to a call and is indexed by the *)
(* thread making it.                                                       *)
(***************************************************************************)
EXTENDS Integers, Sequences, FiniteSets, TLC

VARIABLES topo, g_physStringPath, g_physBinaryPath,
          pc, physicalPath, l_physicalPath, idx, ret, result, diag,
          traversed, oob

vars == <<topo, g_physStringPath, g_physBinaryPath,
          pc, physicalPath, l_physicalPath, idx, ret, result, diag,
          traversed, oob>>

(***************************************************************************)
(* Bounds of the model.                                                    *)
(***************************************************************************)
\* The number of fragments an input string is put together from.
MaxFrags == 3
\* sizeof(g_physStringPath): ATTR_PHYS_DEV_PATH_Type comes from the device
\* tree headers, its size is a parameter of this file.
StrCap == 11
\* The number of fragments of an input of a concurrent call.
ConcFrags == 2

(***************************************************************************)
(* Constants of the program.                                               *)
(***************************************************************************)
continueTgtTraversal == 0
requireAttrFound == 1
requireAttrNotFound == 2

\* EntityPath::maxPathElements (guard_entity.hpp).
maxPathElements == 8
\* sizeof(EntityPath): type_size and maxPathElements two-byte elements.
SizeofEntityPath == 1 + 2 * maxPathElements
\* sizeof(g_physBinaryPath): ATTR_PHYS_BIN_PATH_Type holds an encoded
\* EntityPath.
BinCap == SizeofEntityPath
\* sizeof(entityPath.pathElements[0])
SizeofPathElement == 2

Threads == {1, 2}

NUL == ""

SchemeToken == <<"p", "h", "y", "s", "i", "c", "a", "l", ":">>

UpperChars == <<"A", "B", "C", "D", "E", "F", "G", "H", "I", "J", "K", "L", "M",
                "N", "O", "P", "Q", "R", "S", "T", "U", "V", "W", "X", "Y", "Z">>
LowerChars == <<"a", "b", "c", "d", "e", "f", "g", "h", "i", "j", "k", "l", "m",
                "n", "o", "p", "q", "r", "s", "t", "u", "v", "w", "x", "y", "z">>

(***************************************************************************)
(* The inputs: every concatenation of at most n fragments.                 *)
(***************************************************************************)
Fragments == { <<"/">>, SchemeToken,
               <<"P", "H", "Y", "S", "I", "C", "A", "L", ":">>,
               <<"B">> }

RECURSIVE InputsUpTo(_)
InputsUpTo(n) ==
    IF n = 0 THEN { <<>> }
    ELSE LET shorter == InputsUpTo(n - 1)
         IN  shorter \cup { f \o s : f \in Fragments, s \in shorter }

Inputs == InputsUpTo(MaxFrags)
ConcInputs == InputsUpTo(ConcFrags)

(***************************************************************************)
(* Normalization, lines 118-138.                                           *)
(***************************************************************************)
\* ::tolower in the C locale
UpperSet == { UpperChars[i] : i \in 1..Len(UpperChars) }
LowerOf ==
    [c \in UpperSet |->
        LowerChars[CHOOSE i \in 1..Len(UpperChars) : UpperChars[i] = c]]

ToLower(c) == IF c \in UpperSet THEN LowerOf[c] ELSE c

\* std::transform(begin, end, begin, ::tolower)
Transform(s) == [i \in 1..Len(s) |-> ToLower(s[i])]

\* !s.compare(0, 1, "/"): the first min(1, length) characters equal "/"
StartsWithSlash(s) == Len(s) >= 1 /\ s[1] = "/"

\* The test of the separator negated: a first character other than '/' is
\* dropped, a '/' is kept.
EraseLeadingUnlessSlash(s) ==
    IF Len(s) >= 1 /\ ~StartsWithSlash(s) THEN Tail(s) ELSE s

\* s.erase(0, 1) when the first character is the separator
EraseLeadingSlash(s) == IF StartsWithSlash(s) THEN Tail(s) ELSE s

\* s.find("physical:", 0, 9): the first position, from 0, where the nine
\* characters of the token occur in s; -1 stands for std::string::npos
Find(s, tok) ==
    LET hits == { p \in 0..(Len(s) - Len(tok)) :
                    \A k \in 1..Len(tok) : s[p + k] = tok[k] }
    IN  IF hits = {} THEN -1
        ELSE CHOOSE p \in hits : \A q \in hits : p <= q

\* s.insert(0, "physical:") when find() returned npos
InsertScheme(s) == IF Find(s, SchemeToken) = -1 THEN SchemeToken \o s ELSE s

Normalize(x) == InsertScheme(EraseLeadingSlash(Transform(x)))

\* (l_physicalPath.length() - 1) > sizeof(g_physStringPath), line 140.  The
\* length is at least 9 here, the subtraction does not wrap.
PathTooLong(s) == (Len(s) - 1) > StrCap

(***************************************************************************)
(* The shared buffers, lines 155-163 and 87-89.                            *)
(***************************************************************************)
ZeroString == [i \in 0..(StrCap - 1) |-> NUL]
ZeroBinary == [j \in 0..(BinCap - 1) |-> 0]

\* std::strncpy(dst, s.c_str(), sizeof dst): the first StrCap characters of
\* s, the rest of dst filled with NUL; no terminator when s is not shorter
\* than dst
StrNCpy(dst, s) ==
    [i \in DOMAIN dst |-> IF i < Len(s) THEN s[i + 1] ELSE NUL]

\* The characters of s copied over dst, nothing cleared and nothing padded.
InstallTargetNoClear(buf, s) ==
    [i \in DOMAIN buf |-> IF i < Len(s) THEN s[i + 1] ELSE buf[i]]

\* memset(g_physStringPath, 0, ...) then strncpy, lines 155-163
InstallTarget(buf, s) == StrNCpy([i \in DOMAIN buf |-> NUL], s)

\* The attribute of a node as DT_GET_PROP copies it out: the string and its
\* NUL padding.
AttrString(s) == [i \in 0..(StrCap - 1) |-> IF i < Len(s) THEN s[i + 1] ELSE NUL]

\* std::strcmp(a, b) = 0: the bytes agree up to and including the first NUL
\* of b, which every attribute read from the device tree has.
RECURSIVE StrCmpFrom(_, _, _)
StrCmpFrom(a, b, i) ==
    IF a[i] # b[i] THEN FALSE
    ELSE IF b[i] = NUL THEN TRUE
    ELSE StrCmpFrom(a, b, i + 1)

StrCmpEqual(a, b) == StrCmpFrom(a, b, 0)

(***************************************************************************)
(* The device tree: the nodes in the order pdbg_traverse visits them.      *)
(***************************************************************************)
\* A raw ATTR_PHYS_BIN_PATH value with first byte b0.
Raw(b0, seed) ==
    [j \in 0..(BinCap - 1) |-> IF j = 0 THEN b0 ELSE (seed + 7 * j) % 256]

PathRoot == SchemeToken
PathB == SchemeToken \o <<"b">>

\* A node: its ATTR_PHYS_DEV_PATH and ATTR_PHYS_BIN_PATH properties, each
\* present or not (DT_GET_PROP returns non-zero for a missing property).
Node(hasStr, s, hasBin, raw) ==
    [hasStr |-> hasStr, str |-> AttrString(s), hasBin |-> hasBin, bin |-> raw]

\* The first bytes: 0x11, 0x30 (no element), 0x3F (count 15), 0x12, 0x28
\* (maxPathElements elements), 0xF9 (count 9).
NodeNoString  == Node(FALSE, <<>>, TRUE, Raw(17, 200))
NodeRoot      == Node(TRUE, PathRoot, TRUE, Raw(48, 10))
NodeRootNoBin == Node(TRUE, PathRoot, FALSE, ZeroBinary)
NodeRootOver  == Node(TRUE, PathRoot, TRUE, Raw(63, 90))
NodeB         == Node(TRUE, PathB, TRUE, Raw(18, 30))
NodeBNoBin    == Node(TRUE, PathB, FALSE, ZeroBinary)
NodeBFull     == Node(TRUE, PathB, TRUE, Raw(40, 50))
NodeBOver9    == Node(TRUE, PathB, TRUE, Raw(249, 110))

Topologies ==
    { <<NodeNoString, NodeB, NodeRoot>>,
      <<NodeBNoBin, NodeB, NodeRoot>>,
      <<NodeRootOver, NodeNoString, NodeBFull>>,
      <<NodeRoot, NodeBOver9, NodeBNoBin>>,
      <<NodeBFull, NodeB, NodeRootNoBin>> }

(***************************************************************************)
(* EntityPath and the decoding of the raw value, lines 184-217.            *)
(***************************************************************************)
\* A path element the code has not written.
UnsetElement == [set |-> FALSE, targetType |-> 0, instance |-> 0]

PathElement(t, i) == [set |-> TRUE, targetType |-> t, instance |-> i]

\* std::nullopt
NullOpt ==
    [has |-> FALSE, type_size |-> 0,
     pathElements |-> [i \in 0..(maxPathElements - 1) |-> UnsetElement]]

\* EntityPath entityPath; entityPath.type_size = raw[0], lines 197-198
NewEntityPath(ts) ==
    [has |-> TRUE, type_size |-> ts,
     pathElements |-> [i \in 0..(maxPathElements - 1) |-> UnsetElement]]

\* The count read from the high nibble instead of the low one.
PathElementsSizeHighNibble(ts) == ts \div 16

\* entityPath.type_size & 0x0F, line 200
PathElementsSize(ts) == ts % 16

\* The two bytes of an element taken in the wrong order.
ElementAtSwapped(raw, j) == PathElement(raw[j + 1], raw[j])

\* Lines 213-214: the element read at offset j of the raw value.
ElementAt(raw, j) == PathElement(raw[j], raw[j + 1])

\* pathElementsSize > EntityPath::maxPathElements, line 201
CountOverflow(size) == size > maxPathElements

\* The for loop of lines 210-215, from (i, j): the elements written and
\* whether an index outside pathElements or outside the raw value was used.
RECURSIVE DecodeLoop(_, _, _, _, _, _)
DecodeLoop(elems, bad, raw, size, i, j) ==
    IF ~(i < size) THEN [elems |-> elems, oob |-> bad]
    ELSE IF i >= maxPathElements \/ j + 1 >= BinCap
         THEN DecodeLoop(elems, TRUE, raw, size, i + 1, j + SizeofPathElement)
         ELSE DecodeLoop([elems EXCEPT ![i] = ElementAt(raw, j)],
                         bad, raw, size, i + 1, j + SizeofPathElement)

\* Lines 169-217: what the call returns for the traversal's return code and
\* the binary buffer as it is when the traversal has returned.
Decode(rc, raw) ==
    IF rc = 0
    THEN [result |-> NullOpt, diag |-> "NotFound", oob |-> FALSE]
    ELSE IF rc = requireAttrNotFound
    THEN [result |-> NullOpt, diag |-> "AttributeMissing", oob |-> FALSE]
    ELSE IF SizeofEntityPath < BinCap
    THEN [result |-> NullOpt, diag |-> "SizeMismatch", oob |-> FALSE]
    ELSE LET ep == NewEntityPath(raw[0])
             size == PathElementsSize(ep.type_size)
         IN  IF CountOverflow(size)
             THEN [result |-> NullOpt, diag |-> "CountOverflow", oob |-> FALSE]
             ELSE LET d == DecodeLoop(ep.pathElements, FALSE, raw, size, 0, 1)
                  IN  [result |-> [ep EXCEPT !.pathElements = d.elems],
                       diag |-> "Ok", oob |-> d.oob]

(***************************************************************************)
(* The visitor, lines 56-109.                                              *)
(***************************************************************************)
\* Only the scheme prefix compared, as strncmp(a, b, 9) would.
NodeMatchesSchemeOnly(target, node) ==
    node.hasStr /\ \A i \in 0..(Len(SchemeToken) - 1) : target[i] = node.str[i]

\* Lines 59-76: whether the node is the one looked for.
NodeMatches(target, node) == node.hasStr /\ StrCmpEqual(target, node.str)

\* A missing binary attribute answered with "continue".
ReadBinaryMissingContinues(node) ==
    IF node.hasBin
    THEN [bin |-> node.bin, rc |-> requireAttrFound]
    ELSE [bin |-> ZeroBinary, rc |-> continueTgtTraversal]

\* Lines 87-105: the binary buffer and the return code once a node matched.
ReadBinary(node) ==
    IF node.hasBin
    THEN [bin |-> node.bin, rc |-> requireAttrFound]
    ELSE [bin |-> ZeroBinary, rc |-> requireAttrNotFound]

\* pdbg_traverse(NULL, visitor, NULL) from node i on: 0 when no call of the
\* visitor returned non-zero, otherwise that call's code; bin is the binary
\* buffer when it returns.
RECURSIVE TraverseFrom(_, _, _, _)
TraverseFrom(target, bin, tp, i) ==
    IF i > Len(tp) THEN [rc |-> continueTgtTraversal, bin |-> bin]
    ELSE IF ~NodeMatches(target, tp[i]) THEN TraverseFrom(target, bin, tp, i + 1)
    ELSE LET r == ReadBinary(tp[i])
         IN  IF r.rc = continueTgtTraversal
             THEN TraverseFrom(target, r.bin, tp, i + 1)
             ELSE r

\* getEntityPathFromDevTree(x) run from freshly zeroed buffers, with no
\* other call before or beside it.
RunAlone(x, tp) ==
    LET l == Normalize(x)
    IN  IF PathTooLong(l)
        THEN [result |-> NullOpt, diag |-> "TooLong", oob |-> FALSE]
        ELSE LET tr == TraverseFrom(InstallTarget(ZeroString, l), ZeroBinary, tp, 1)
             IN  Decode(tr.rc, tr.bin)

(***************************************************************************)
(* The state machine.  pc[t] is where thread t is in its call:             *)
(*   idle      not in a call                                               *)
(*   install   the path is normalized and fits, line 155 is next           *)
(*   traverse  in pdbg_traverse, about to hand node idx[t] to the visitor  *)
(*   readbin   the visitor matched node idx[t], line 87 is next            *)
(*   returned  pdbg_traverse has returned ret[t], line 169 is next         *)
(*   done      the call has returned result[t]                             *)
(***************************************************************************)
NoLocals(v) == [t \in Threads |-> v]

InitCommon(tops) ==
    /\ topo \in tops
    /\ g_physStringPath = ZeroString
    /\ g_physBinaryPath = ZeroBinary
    /\ pc = NoLocals("idle")
    /\ physicalPath = NoLocals(<<>>)
    /\ l_physicalPath = NoLocals(<<>>)
    /\ idx = NoLocals(0)
    /\ ret = NoLocals(0)
    /\ result = NoLocals(NullOpt)
    /\ diag = NoLocals("None")
    /\ traversed = NoLocals(FALSE)
    /\ oob = NoLocals(FALSE)

Init == InitCommon(Topologies)

\* getEntityPathFromDevTree(x), lines 118-148.
Call(t, xs) ==
    /\ pc[t] = "idle"
    /\ \E x \in xs :
         LET l == Normalize(x)
         IN  /\ physicalPath' = [physicalPath EXCEPT ![t] = x]
             /\ l_physicalPath' = [l_physicalPath EXCEPT ![t] = l]
             /\ IF PathTooLong(l)
                THEN /\ pc' = [pc EXCEPT ![t] = "done"]
                     /\ diag' = [diag EXCEPT ![t] = "TooLong"]
                ELSE /\ pc' = [pc EXCEPT ![t] = "install"]
                     /\ diag' = [diag EXCEPT ![t] = "None"]
    /\ result' = [result EXCEPT ![t] = NullOpt]
    /\ UNCHANGED <<topo, g_physStringPath, g_physBinaryPath, idx, ret,
                   traversed, oob>>

\* Lines 155-165: the target is installed and pdbg_traverse is entered.
Install(t) ==
    /\ pc[t] = "install"
    /\ g_physStringPath' = InstallTarget(g_physStringPath, l_physicalPath[t])
    /\ pc' = [pc EXCEPT ![t] = "traverse"]
    /\ idx' = [idx EXCEPT ![t] = 1]
    /\ traversed' = [traversed EXCEPT ![t] = TRUE]
    /\ UNCHANGED <<topo, g_physBinaryPath, physicalPath, l_physicalPath, ret,
                   result, diag, oob>>

\* pdbg_traverse hands the next node to the visitor, lines 59-76; with no
\* node left it returns 0.
Visit(t) ==
    /\ pc[t] = "traverse"
    /\ IF idx[t] > Len(topo)
       THEN /\ pc' = [pc EXCEPT ![t] = "returned"]
            /\ ret' = [ret EXCEPT ![t] = continueTgtTraversal]
            /\ idx' = idx
       ELSE IF NodeMatches(g_physStringPath, topo[idx[t]])
       THEN /\ pc' = [pc EXCEPT ![t] = "readbin"]
            /\ UNCHANGED <<ret, idx>>
       ELSE /\ idx' = [idx EXCEPT ![t] = idx[t] + 1]
            /\ UNCHANGED <<pc, ret>>
    /\ UNCHANGED <<topo, g_physStringPath, g_physBinaryPath, physicalPath,
                   l_physicalPath, result, diag, traversed, oob>>

\* Lines 87-105: the matched node's binary value is read, the visitor's
\* non-zero return code ends the traversal.
VisitRead(t) ==
    /\ pc[t] = "readbin"
    /\ LET r == ReadBinary(topo[idx[t]])
       IN  /\ g_physBinaryPath' = r.bin
           /\ IF r.rc = continueTgtTraversal
              THEN /\ idx' = [idx EXCEPT ![t] = idx[t] + 1]
                   /\ pc' = [pc EXCEPT ![t] = "traverse"]
                   /\ ret' = ret
              ELSE /\ ret' = [ret EXCEPT ![t] = r.rc]
                   /\ pc' = [pc EXCEPT ![t] = "returned"]
                   /\ idx' = idx
    /\ UNCHANGED <<topo, g_physStringPath, physicalPath, l_physicalPath,
                   result, diag, traversed, oob>>

\* Lines 169-217.
Finish(t) ==
    /\ pc[t] = "returned"
    /\ LET d == Decode(ret[t], g_physBinaryPath)
       IN  /\ result' = [result EXCEPT ![t] = d.result]
           /\ diag' = [diag EXCEPT ![t] = d.diag]
           /\ oob' = [oob EXCEPT ![t] = d.oob]
    /\ pc' = [pc EXCEPT ![t] = "done"]
    /\ UNCHANGED <<topo, g_physStringPath, g_physBinaryPath, physicalPath,
                   l_physicalPath, idx, ret, traversed>>

\* The caller has taken the result; the locals of the call are gone.
Return(t) ==
    /\ pc[t] = "done"
    /\ pc' = [pc EXCEPT ![t] = "idle"]
    /\ physicalPath' = [physicalPath EXCEPT ![t] = <<>>]
    /\ l_physicalPath' = [l_physicalPath EXCEPT ![t] = <<>>]
    /\ idx' = [idx EXCEPT ![t] = 0]
    /\ ret' = [ret EXCEPT ![t] = 0]
    /\ result' = [result EXCEPT ![t] = NullOpt]
    /\ diag' = [diag EXCEPT ![t] = "None"]
    /\ traversed' = [traversed EXCEPT ![t] = FALSE]
    /\ oob' = [oob EXCEPT ![t] = FALSE]
    /\ UNCHANGED <<topo, g_physStringPath, g_physBinaryPath>>

\* One caller, one call after the other (section 5 of the design: the
\* resolution is single-threaded and synchronous).
Next ==
    \/ Call(1, Inputs)
    \/ Install(1)
    \/ Visit(1)
    \/ VisitRead(1)
    \/ Finish(1)
    \/ Return(1)

Spec == Init /\ [][Next]_vars

\* Two callers, one call each, their steps interleaved.
ConcInit == InitCommon(Topologies)

ConcNext ==
    \E t \in Threads :
        \/ Call(t, ConcInputs)
        \/ Install(t)
        \/ Visit(t)
        \/ VisitRead(t)
        \/ Finish(t)

ConcSpec == ConcInit /\ [][ConcNext]_vars

(***************************************************************************)
(* Vocabulary of the properties.                                           *)
(***************************************************************************)
\* The string a buffer holds: its characters before the first NUL.
CString(buf) ==
    LET n == IF \E i \in DOMAIN buf : buf[i] = NUL
             THEN CHOOSE i \in DOMAIN buf :
                      buf[i] = NUL /\ \A k \in DOMAIN buf : buf[k] = NUL => i <= k
             ELSE Cardinality(DOMAIN buf)
    IN  [i \in 1..n |-> buf[i - 1]]

\* The node carries the string-path attribute s.
HasPath(node, s) == node.hasStr /\ CString(node.str) = s

\* The places in traversal order of the nodes carrying s.
MatchSet(tp, s) == { i \in 1..Len(tp) : HasPath(tp[i], s) }

FirstOf(m) == CHOOSE i \in m : \A k \in m : i <= k

HasPrefix(s, tok) == Len(s) >= Len(tok) /\ SubSeq(s, 1, Len(tok)) = tok

Contains(s, tok) ==
    \E p \in 0..(Len(s) - Len(tok)) : SubSeq(s, p + 1, p + Len(tok)) = tok

IsLowerCase(s) == \A i \in 1..Len(s) : s[i] \notin UpperSet

LowNibble(b) == b % 16

\* ep is the EntityPath the raw value encodes: type_size is byte 0, the
\* first k elements are the byte pairs from offset 1 on, no other is written.
MirrorsRaw(ep, raw) ==
    /\ ep.has
    /\ ep.type_size = raw[0]
    /\ \A i \in 0..(maxPathElements - 1) :
          IF i < LowNibble(raw[0])
          THEN /\ ep.pathElements[i].set
               /\ ep.pathElements[i].targetType = raw[1 + 2 * i]
               /\ ep.pathElements[i].instance = raw[2 + 2 * i]
          ELSE ~ep.pathElements[i].set

\* The buffer holds the whole of s and its terminator.
HoldsWhole(buf, s) ==
    /\ Len(s) + 1 <= StrCap
    /\ \A i \in DOMAIN buf : buf[i] = IF i < Len(s) THEN s[i + 1] ELSE NUL

\* The bodies p of which x is one of the three forms.
BodiesOf(x) ==
    {x} \cup (IF StartsWithSlash(x) THEN {Tail(x)} ELSE {})
        \cup (IF HasPrefix(x, SchemeToken)
              THEN {SubSeq(x, Len(SchemeToken) + 1, Len(x))} ELSE {})

InCall(t) == pc[t] # "idle"
Accepted(t) == InCall(t) /\ diag[t] # "TooLong"

(***************************************************************************)
(* C1.  Two concurrent calls with different target paths do not observe    *)
(* each other's search target or binary result: each returns what it       *)
(* returns when run alone on the same device tree.                         *)
(***************************************************************************)
C1_ConcurrentCallsIsolated ==
    \A t \in Threads : \A u \in Threads \ {t} :
        (pc[t] = "done" /\ InCall(u) /\ l_physicalPath[t] # l_physicalPath[u])
        => /\ result[t] = RunAlone(physicalPath[t], topo).result
           /\ diag[t] = RunAlone(physicalPath[t], topo).diag

(***************************************************************************)
(* C2.  A normalized string of length >= the capacity of the string buffer *)
(* is rejected with TooLong before any traversal; whenever a traversal is  *)
(* performed the buffer holds the whole normalized string and its          *)
(* terminator.                                                             *)
(***************************************************************************)
C2_TooLongBeforeTraversal ==
    \A t \in Threads :
        /\ (InCall(t) /\ Len(l_physicalPath[t]) >= StrCap)
           => (pc[t] = "done" /\ diag[t] = "TooLong" /\ ~result[t].has
               /\ ~traversed[t])
        /\ (pc[t] \in {"traverse", "readbin"})
           => HoldsWhole(g_physStringPath, l_physicalPath[t])

(***************************************************************************)
(* C3.  As claimed: when some node carries the path with both attributes   *)
(* and a count k <= maxPathElements, the call returns the EntityPath that  *)
(* mirrors that node's raw value.                                          *)
(***************************************************************************)
C3_AnyNodeMirrored ==
    \A t \in Threads :
        pc[t] = "done" =>
            \A i \in MatchSet(topo, l_physicalPath[t]) :
                (topo[i].hasBin /\ LowNibble(topo[i].bin[0]) <= maxPathElements)
                => MirrorsRaw(result[t], topo[i].bin)

(***************************************************************************)
(* C3, amended.  When the first node in traversal order that carries the   *)
(* path has both attributes and a count k <= maxPathElements, the call     *)
(* returns a non-absent EntityPath with type_size = raw[0], elements       *)
(* 0..k-1 the pairs (raw[1+2i], raw[2+2i]) and no other element written.   *)
(***************************************************************************)
C3_FirstNodeMirrored ==
    \A t \in Threads :
        pc[t] = "done" =>
            LET m == MatchSet(topo, l_physicalPath[t])
            IN  (/\ m # {}
                 /\ topo[FirstOf(m)].hasBin
                 /\ LowNibble(topo[FirstOf(m)].bin[0]) <= maxPathElements)
                => /\ MirrorsRaw(result[t], topo[FirstOf(m)].bin)
                   /\ diag[t] = "Ok"

\* A call has returned a path of maxPathElements elements.
C3_Witness ==
    /\ pc[1] = "done"
    /\ result[1].has
    /\ LowNibble(result[1].type_size) = maxPathElements
    /\ result[1].pathElements[maxPathElements - 1].set

(***************************************************************************)
(* C4.  A traversal ends in exactly one of three ways: 0 (NotFound) when   *)
(* no node carries the target, 2 (AttributeMissing) when the matched node  *)
(* lacks the binary attribute, 1 when its binary attribute was read.  The  *)
(* first two both return absent, with different diagnostics.               *)
(***************************************************************************)
C4_ThreeOutcomes ==
    \A t \in Threads :
        (pc[t] \in {"returned", "done"} /\ traversed[t]) =>
            LET m == MatchSet(topo, l_physicalPath[t])
            IN  /\ ret[t] \in {continueTgtTraversal, requireAttrFound,
                               requireAttrNotFound}
                /\ (ret[t] = continueTgtTraversal) <=> (m = {})
                /\ (ret[t] = requireAttrNotFound)
                   <=> (m # {} /\ ~topo[FirstOf(m)].hasBin)
                /\ (ret[t] = requireAttrFound)
                   <=> (m # {} /\ topo[FirstOf(m)].hasBin)
                /\ (ret[t] = requireAttrFound)
                   => g_physBinaryPath = topo[FirstOf(m)].bin
                /\ (pc[t] = "done" /\ ret[t] = continueTgtTraversal)
                   => (~result[t].has /\ diag[t] = "NotFound")
                /\ (pc[t] = "done" /\ ret[t] = requireAttrNotFound)
                   => (~result[t].has /\ diag[t] = "AttributeMissing")
                /\ (pc[t] = "done" /\ ret[t] = requireAttrFound)
                   => diag[t] \in {"Ok", "CountOverflow", "SizeMismatch"}

\* A call has ended with AttributeMissing.
C4_Witness ==
    /\ pc[1] = "done"
    /\ ret[1] = requireAttrNotFound
    /\ diag[1] = "AttributeMissing"

(***************************************************************************)
(* C5.  Normalization is idempotent on every accepted input.               *)
(***************************************************************************)
C5_NormalizeIdempotent ==
    \A t \in Threads :
        Accepted(t) => Normalize(l_physicalPath[t]) = l_physicalPath[t]

(***************************************************************************)
(* C6.  As claimed: for a path body p without leading '/' that does not    *)
(* contain the token "physical:", the inputs p, "/" p and "physical:" p    *)
(* normalize to "physical:" lower(p).                                      *)
(***************************************************************************)
C6_ThreeFormsLiteral ==
    \A t \in Threads :
        InCall(t) =>
            \A p \in BodiesOf(physicalPath[t]) :
                (~StartsWithSlash(p) /\ ~Contains(p, SchemeToken))
                => l_physicalPath[t] = SchemeToken \o Transform(p)

(***************************************************************************)
(* C6, amended.  For a path body p without leading '/' that does not       *)
(* contain the token "physical:" in any letter case, the inputs p, "/" p   *)
(* and "physical:" p normalize to "physical:" lower(p), and the call       *)
(* returns what the call on p returns on the same device tree.             *)
(***************************************************************************)
C6_ThreeForms ==
    \A t \in Threads :
        InCall(t) =>
            \A p \in BodiesOf(physicalPath[t]) :
                (~StartsWithSlash(p) /\ ~Contains(Transform(p), SchemeToken))
                => /\ l_physicalPath[t] = SchemeToken \o Transform(p)
                   /\ pc[t] = "done"
                      => /\ result[t] = RunAlone(p, topo).result
                         /\ diag[t] = RunAlone(p, topo).diag

\* A call on "/" p, with an upper-case letter in p, has found its node.
C6_Witness ==
    /\ pc[1] = "done"
    /\ physicalPath[1] = <<"/", "B">>
    /\ result[1].has

(***************************************************************************)
(* C7.  The normalized string of an accepted input is lower-case, has no   *)
(* leading '/', begins with "physical:", and the token was prepended       *)
(* exactly when the string did not begin with it.                          *)
(***************************************************************************)
C7_CanonicalForm ==
    \A t \in Threads :
        Accepted(t) =>
            LET l == l_physicalPath[t]
                s == EraseLeadingSlash(Transform(physicalPath[t]))
            IN  /\ IsLowerCase(l)
                /\ ~StartsWithSlash(l)
                /\ HasPrefix(l, SchemeToken)
                /\ l = IF HasPrefix(s, SchemeToken) THEN s ELSE SchemeToken \o s

(***************************************************************************)
(* C8.  The element count is the low nibble of raw byte 0, whatever the    *)
(* high nibble: a low nibble above maxPathElements gives absent with       *)
(* CountOverflow and no element written, any other is decoded; a returned  *)
(* EntityPath has (type_size & 0x0F) <= maxPathElements and the loop       *)
(* writes no index >= maxPathElements.                                     *)
(***************************************************************************)
C8_CountFromLowNibble ==
    \A t \in Threads :
        /\ (pc[t] = "done" /\ traversed[t] /\ ret[t] = requireAttrFound)
           => LET b0 == g_physBinaryPath[0]
              IN  IF LowNibble(b0) > maxPathElements
                  THEN /\ ~result[t].has
                       /\ diag[t] = "CountOverflow"
                       /\ \A i \in 0..(maxPathElements - 1) :
                              ~result[t].pathElements[i].set
                  ELSE /\ result[t].has
                       /\ result[t].type_size = b0
        /\ result[t].has => LowNibble(result[t].type_size) <= maxPathElements
        /\ ~oob[t]

\* A call has met the raw first byte 0x3F and ended with CountOverflow.
C8_Witness ==
    /\ pc[1] = "done"
    /\ ret[1] = requireAttrFound
    /\ g_physBinaryPath[0] = 63
    /\ diag[1] = "CountOverflow"

(***************************************************************************)
(* C9.  First match wins: the traversal stops at the first node in         *)
(* traversal order that carries the target, visits no node after it, and   *)
(* that node alone decides the outcome (AttributeMissing when it lacks the *)
(* binary attribute, whatever a later node with the same path has); a node *)
(* that is skipped leaves the binary buffer untouched.                     *)
(***************************************************************************)
C9_State ==
    \A t \in Threads :
        traversed[t] =>
            LET m == MatchSet(topo, l_physicalPath[t])
            IN  /\ pc[t] = "traverse"
                   => /\ idx[t] <= Len(topo) + 1
                      /\ \A i \in 1..(idx[t] - 1) : i \notin m
                /\ pc[t] = "readbin" => (m # {} /\ idx[t] = FirstOf(m))
                /\ pc[t] \in {"returned", "done"}
                   => IF m = {}
                      THEN idx[t] = Len(topo) + 1 /\ ret[t] = continueTgtTraversal
                      ELSE /\ idx[t] = FirstOf(m)
                           /\ ret[t] = IF topo[FirstOf(m)].hasBin
                                       THEN requireAttrFound
                                       ELSE requireAttrNotFound
                /\ (pc[t] = "done" /\ m # {} /\ ~topo[FirstOf(m)].hasBin)
                   => (~result[t].has /\ diag[t] = "AttributeMissing")

C9_Step ==
    \A t \in Threads :
        (pc[t] = "traverse" /\ pc'[t] = "traverse")
        => /\ g_physBinaryPath' = g_physBinaryPath
           /\ idx'[t] = idx[t] + 1

C9_FirstMatchWins == [](C9_State) /\ [][C9_Step]_vars

\* The first node carrying the target lacks the binary attribute, a later
\* one has it, and the call has ended with AttributeMissing.
C9_Witness ==
    /\ pc[1] = "done"
    /\ diag[1] = "AttributeMissing"
    /\ \E i \in MatchSet(topo, l_physicalPath[1]) : i > idx[1] /\ topo[i].hasBin

(***************************************************************************)
(* C10.  After any sequence of calls made one after the other, a call's    *)
(* result depends on its own input and the device tree only: the string    *)
(* buffer holds nothing of an earlier target while the tree is walked, the *)
(* binary buffer nothing of an earlier result once a node has matched.     *)
(***************************************************************************)
C10_BuffersScopedToCall ==
    \A t \in Threads :
        /\ pc[t] = "done"
           => /\ result[t] = RunAlone(physicalPath[t], topo).result
              /\ diag[t] = RunAlone(physicalPath[t], topo).diag
        /\ pc[t] \in {"traverse", "readbin", "returned"}
           => \A i \in DOMAIN g_physStringPath :
                  g_physStringPath[i] =
                      IF i < Len(l_physicalPath[t]) THEN l_physicalPath[t][i + 1]
                      ELSE NUL
        /\ (pc[t] = "returned" /\ ret[t] = requireAttrNotFound)
           => g_physBinaryPath = ZeroBinary
        /\ (pc[t] = "returned" /\ ret[t] = requireAttrFound)
           => g_physBinaryPath = topo[idx[t]].bin

\* A call that found nothing has returned while the binary buffer still
\* holds the value an earlier call read.
C10_Witness ==
    /\ pc[1] = "done"
    /\ diag[1] = "NotFound"
    /\ g_physBinaryPath # ZeroBinary
    /\ CString(g_physStringPath) = l_physicalPath[1]
=============================================================================
